---- MODULE Spec2Model ----
(***************************************************************************)
(* Model of git-dashboard.py: the repository scanner (get_git_repos), the  *)
(* recency formatter (get_time_ago), the settings dialog's save, and the   *)
(* launcher's refresh / sort / filter / open handlers.                     *)
(*                                                                         *)
(* Text is a sequence of one-character strings (a fixed name the program   *)
(* never takes apart, such as ".git", is written as one token); a path is  *)
(* a sequence of components, each component a text.  Time is counted in    *)
(* ticks, a fixed fraction of a second, so that the float arithmetic of    *)
(* get_time_ago (fractional seconds, truncation, floor division) shows.    *)
(***************************************************************************)
EXTENDS Integers, Sequences, FiniteSets, TLC

VARIABLES
    fs,               \* the filesystem the program reads (environment)
    now,              \* the wall clock, in ticks
    EDITOR_COMMAND,   \* module global, line 39
    BASE_PATH,        \* module global, line 40
    envFile,          \* the keys stored in the .env file at ENV_PATH
    sort_reverse,     \* DarkRepoLauncher.sort_reverse
    all_repos,        \* DarkRepoLauncher.all_repos
    search_var,       \* DarkRepoLauncher.search_var
    tree,             \* the rows of DarkRepoLauncher.tree, top to bottom
    displayed_paths,  \* DarkRepoLauncher.displayed_paths
    selection,        \* index of the selected row of tree, 0 when none
    spawned,          \* argv handed to subprocess.Popen by the last handler
    errorShown,       \* the last handler called messagebox.showerror
    scans,            \* number of get_git_repos calls made by the last handler
    ev,               \* the last event handled
    orderedBy,        \* col of the most recent sort_column call
    lastShown,        \* per column, the reverse flag of its most recent sort
    userKey,          \* the header most recently clicked, "none" before any
    ageTs,            \* argument of the last direct get_time_ago call
    ageNow,           \* the clock at that call
    ageLabel          \* the label it returned

vars == <<fs, now, EDITOR_COMMAND, BASE_PATH, envFile, sort_reverse, all_repos,
          search_var, tree, displayed_paths, selection, spawned, errorShown,
          scans, ev, orderedBy, lastShown, userKey, ageTs, ageNow, ageLabel>>

viewVars == <<EDITOR_COMMAND, BASE_PATH, envFile, sort_reverse, all_repos,
              search_var, tree, displayed_paths, selection, spawned,
              errorShown, scans, ev, orderedBy, lastShown, userKey>>

-----------------------------------------------------------------------------
(* Bounds of the model *)

MaxSearchLen == 1     \* longest search term typed
MaxClockSteps == 3    \* clock advances explored by SpecAge
TicksPerSec == 2      \* resolution of the clock: ticks per second
NowBase == 400000     \* the clock at startup, in ticks

(* Constants of the program *)

SecPerMin == 60
SecPerHour == 3600
SecPerDay == 86400

-----------------------------------------------------------------------------
(* Text: str.lower, the substring test `in`, str.strip, comparison *)

Range(s) == {s[i] : i \in 1..Len(s)}

LowerChar(c) ==
    CASE c = "A" -> "a"
      [] c = "B" -> "b"
      [] OTHER -> c

Lower(s) == [i \in 1..Len(s) |-> LowerChar(s[i])]

\* Code point of the characters that names are made of.
Ord(c) ==
    CASE c = "A" -> 65
      [] c = "B" -> 66
      [] c = "a" -> 97
      [] c = "b" -> 98
      [] OTHER -> 0

\* a < b for Python strings: lexicographic by code point, a proper prefix first.
RECURSIVE StrLess(_, _)
StrLess(a, b) ==
    IF b = <<>> THEN FALSE
    ELSE IF a = <<>> THEN TRUE
    ELSE IF Ord(Head(a)) # Ord(Head(b)) THEN Ord(Head(a)) < Ord(Head(b))
    ELSE StrLess(Tail(a), Tail(b))

\* a in b for Python strings.
StrIn(a, b) ==
    \E i \in 1..(Len(b) + 1) :
        /\ i + Len(a) - 1 <= Len(b)
        /\ SubSeq(b, i, i + Len(a) - 1) = a

IsSpace(c) == c = " "

RECURSIVE LStrip(_)
LStrip(s) == IF s # <<>> /\ IsSpace(Head(s)) THEN LStrip(Tail(s)) ELSE s

RECURSIVE RStrip(_)
RStrip(s) ==
    IF s # <<>> /\ IsSpace(s[Len(s)]) THEN RStrip(SubSeq(s, 1, Len(s) - 1)) ELSE s

Strip(s) == RStrip(LStrip(s))

-----------------------------------------------------------------------------
(* Paths and the filesystem.  A filesystem is a record: nodes is the set   *)
(* of existing files and directories [path, kind, mtime]; order lists the  *)
(* names in the order os.scandir yields them.                              *)

Home == <<"h">>             \* the user's home directory, /h
Tilde == <<"~">>
GitName == <<".git">>
MsgName == <<"COMMIT_EDITMSG">>

\* A path as the user writes it: leading and trailing blanks are characters
\* of the first and last component.
StripPath(p) ==
    IF p = <<>> THEN p
    ELSE IF Len(p) = 1 THEN <<Strip(p[1])>>
    ELSE <<LStrip(p[1])>> \o SubSeq(p, 2, Len(p) - 1) \o <<RStrip(p[Len(p)])>>

expanduser(p) ==
    IF p # <<>> /\ Head(p) = Tilde THEN <<Home>> \o Tail(p) ELSE p

join(p, name) == Append(p, name)

exists(f, p) == \E n \in f.nodes : n.path = p

isdir(f, p) == \E n \in f.nodes : n.path = p /\ n.kind = "dir"

getmtime(f, p) == (CHOOSE n \in f.nodes : n.path = p).mtime

\* os.scandir(p): one DirEntry per immediate child of p.
scandir(f, p) ==
    LET names == SelectSeq(f.order, LAMBDA nm : exists(f, join(p, nm)))
    IN [i \in 1..Len(names) |->
            [name |-> names[i],
             path |-> join(p, names[i]),
             is_dir |-> isdir(f, join(p, names[i]))]]

-----------------------------------------------------------------------------
(* get_time_ago *)

\* int(x) of a float: truncation toward zero, x given in ticks.
IntSeconds(ticks) ==
    IF ticks >= 0 THEN ticks \div TicksPerSec ELSE -((-ticks) \div TicksPerSec)

\* int(s // d) of a float s: floor division, s given in ticks.
FloorDivSeconds(ticks, d) == ticks \div (d * TicksPerSec)

InFirstBucketInclusive(s) == s <= SecPerMin * TicksPerSec

InFirstBucket(s) == s < SecPerMin * TicksPerSec

get_time_ago(timestamp, clock) ==
    IF timestamp = 0 THEN [n |-> 0, unit |-> "Never"]
    ELSE LET s == clock - timestamp
         IN IF InFirstBucket(s)
                THEN [n |-> IntSeconds(s), unit |-> "s ago"]
            ELSE IF s < SecPerHour * TicksPerSec
                THEN [n |-> FloorDivSeconds(s, SecPerMin), unit |-> "m ago"]
            ELSE IF s < SecPerDay * TicksPerSec
                THEN [n |-> FloorDivSeconds(s, SecPerHour), unit |-> "h ago"]
            ELSE [n |-> FloorDivSeconds(s, SecPerDay), unit |-> "d ago"]

-----------------------------------------------------------------------------
(* get_git_repos *)

\* The test of line 76.
Qualifies(f, entry) == entry.is_dir /\ exists(f, join(entry.path, GitName))

\* Lines 77-90: the dict appended for a qualifying entry.
RepoOf(f, entry, clock) ==
    LET git_dir == join(entry.path, GitName)
        msg_file == join(git_dir, MsgName)
        mtime == IF exists(f, msg_file) THEN getmtime(f, msg_file)
                                        ELSE getmtime(f, git_dir)
    IN [name |-> entry.name, path |-> entry.path, mtime |-> mtime,
        time_ago |-> get_time_ago(mtime, clock)]

\* The for loop of lines 74-90 from entry i on.  errAt = i: an exception is
\* raised while entry i is handled (errAt = 0: no error is injected).
RECURSIVE ScanLoop(_, _, _, _, _, _)
ScanLoop(f, entries, i, errAt, repos, clock) ==
    IF i > Len(entries) THEN [raised |-> FALSE, repos |-> repos]
    ELSE IF i = errAt THEN [raised |-> TRUE, repos |-> repos]
    ELSE ScanLoop(f, entries, i + 1, errAt,
                  IF Qualifies(f, entries[i])
                      THEN Append(repos, RepoOf(f, entries[i], clock))
                      ELSE repos,
                  clock)

\* The try block, lines 70-91.  scandir of something that is no directory
\* raises NotADirectoryError.
ScanTry(path, f, errAt, clock) ==
    LET expanded_path == expanduser(path)
    IN IF ~exists(f, expanded_path)
           THEN [raised |-> FALSE, early |-> TRUE, repos |-> <<>>]
       ELSE IF ~isdir(f, expanded_path)
           THEN [raised |-> TRUE, early |-> FALSE, repos |-> <<>>]
       ELSE LET r == ScanLoop(f, scandir(f, expanded_path), 1, errAt, <<>>, clock)
            IN [raised |-> r.raised, early |-> FALSE, repos |-> r.repos]

ScanExceptKeepsPartial(partial) == partial

\* The except clause, lines 92-94: what is returned after an exception, when
\* `partial` had been collected.
ScanExcept(partial) == <<>>

get_git_repos(path, f, errAt, clock) ==
    LET r == ScanTry(path, f, errAt, clock)
    IN IF r.raised THEN ScanExcept(r.repos) ELSE r.repos

\* The scan met a missing path or an error.
ScanFailed(path, f, errAt, clock) ==
    LET r == ScanTry(path, f, errAt, clock) IN r.raised \/ r.early

-----------------------------------------------------------------------------
(* The filesystems and the user inputs explored *)

Dir(p, t) == [path |-> p, kind |-> "dir", mtime |-> t]
File(p, t) == [path |-> p, kind |-> "file", mtime |-> t]

Ago(seconds) == NowBase - seconds * TicksPerSec

HomeDir == <<Home>>
DocsDir == <<Home, <<"Documents">>>>      \* ~/Documents, the default BASE_PATH
WorkDir == <<<<"w">>>>                     \* /w
PlainFile == <<<<"f">>>>                   \* /f, a regular file
NoSuchDir == <<<<"x">>>>                   \* /x, never exists

NameAb == <<"a", "b">>
NameAB == <<"A", "b">>
NameB == <<"B">>
NameDeep == <<"b", "a">>

\* A child directory `name` of `root` that is a repository: its .git
\* directory changed `gitAge` seconds ago and, when msgAge >= 0, its
\* COMMIT_EDITMSG `msgAge` seconds ago.
RepoNodes(root, name, gitAge, msgAge) ==
    LET d == join(root, name)
    IN {Dir(d, Ago(gitAge)), Dir(join(d, GitName), Ago(gitAge))}
       \cup (IF msgAge >= 0
                THEN {File(join(join(d, GitName), MsgName), Ago(msgAge))}
                ELSE {})

\* /w holds two repositories with the same last-activity time: ab was
\* committed to when the .git directory of B, never committed from, last
\* changed.
WorkNodes ==
    {Dir(WorkDir, Ago(5))}
    \cup RepoNodes(WorkDir, NameAb, 7200, 30)
    \cup RepoNodes(WorkDir, NameB, 30, -1)

BaseNodes == {Dir(HomeDir, Ago(5)), File(PlainFile, Ago(5))}

\* ~/Documents holds two repositories, the older one listed first.
FsRepos ==
    [nodes |-> BaseNodes \cup WorkNodes \cup {Dir(DocsDir, Ago(5))}
               \cup RepoNodes(DocsDir, NameAb, 172800, 7200)
               \cup RepoNodes(DocsDir, NameB, 3600, 90),
     order |-> <<NameAb, NameAB, NameB, GitName, MsgName, NameDeep>>]

\* ~/Documents holds a directory whose .git is a regular file, a directory
\* without .git that holds a repository one level deeper, and a regular file.
FsOdd ==
    [nodes |-> BaseNodes \cup {Dir(DocsDir, Ago(5))}
               \cup {Dir(join(DocsDir, NameB), Ago(60)),
                     File(join(join(DocsDir, NameB), GitName), Ago(60))}
               \cup {Dir(join(DocsDir, NameAb), Ago(30))}
               \cup RepoNodes(join(DocsDir, NameAb), NameDeep, 30, 30)
               \cup {File(join(DocsDir, NameAB), Ago(30))},
     order |-> <<NameAb, NameAB, NameB, GitName, MsgName, NameDeep>>]

\* ~/Documents has been removed.
FsGone ==
    [nodes |-> BaseNodes \cup WorkNodes,
     order |-> <<NameAb, NameAB, NameB, GitName, MsgName, NameDeep>>]

FsSet == {FsRepos, FsOdd, FsGone}

\* Texts typed into the settings dialog.
EditorInputs == {<<"c", "o", "d", "e">>, <<" ", "z", "e", "d", " ">>}
PathInputs ==
    {<<Tilde, <<"Documents">>>>, <<<<" ", "w">>>>, NoSuchDir}

SearchChars == {"A"}

Columns == {"Name", "Last Commit"}

-----------------------------------------------------------------------------
(* .env *)

getenv(env, key, default) == IF key \in DOMAIN env THEN env[key] ELSE default

set_key(env, key, value) ==
    [k \in DOMAIN env \cup {key} |-> IF k = key THEN value ELSE env[k]]

NoEnv == [k \in {} |-> <<>>]

\* The .env files the program may start from: none, or one that names an
\* editor and a search path (which nothing validates at startup; here it
\* names a regular file).
InitEnvs ==
    {NoEnv,
     [k \in {"EDITOR_COMMAND", "BASE_PATH"} |->
         IF k = "EDITOR_COMMAND" THEN <<"z", "e", "d">> ELSE PlainFile]}

DefaultEditor == <<"c", "o", "d", "e">>

-----------------------------------------------------------------------------
(* DarkRepoLauncher: list.sort, sort_column, update_list, refresh_data *)

SortKey(repo, col) == IF col = "Name" THEN Lower(repo.name) ELSE repo.mtime

KeyLess(a, b, col) ==
    IF col = "Name" THEN StrLess(SortKey(a, col), SortKey(b, col))
                    ELSE SortKey(a, col) < SortKey(b, col)

\* a has to come before b in the sorted list.
Precedes(a, b, col, reverse) ==
    IF reverse THEN KeyLess(b, a, col) ELSE KeyLess(a, b, col)

\* x put into the sorted list behind every element it need not precede.
RECURSIVE InsertSorted(_, _, _, _)
InsertSorted(sorted, x, col, reverse) ==
    IF sorted = <<>> THEN <<x>>
    ELSE IF Precedes(x, Head(sorted), col, reverse) THEN <<x>> \o sorted
    ELSE <<Head(sorted)>> \o InsertSorted(Tail(sorted), x, col, reverse)

\* list.sort(key=..., reverse=...): stable, also when reversed.
RECURSIVE ListSort(_, _, _)
ListSort(repos, col, reverse) ==
    IF repos = <<>> THEN <<>>
    ELSE InsertSorted(ListSort(SubSeq(repos, 1, Len(repos) - 1), col, reverse),
                      repos[Len(repos)], col, reverse)

MatchesCaseSensitive(term, repo) == StrIn(term, repo.name)

\* Line 443.
Matches(term, repo) == StrIn(Lower(term), Lower(repo.name))

\* Lines 445-450: the values of one row.
RowOf(repo) == [name |-> <<" ", " ">> \o repo.name, time_ago |-> repo.time_ago]

\* update_list: the rows and displayed_paths it builds.
update_list(repos, term) ==
    LET shown == SelectSeq(repos, LAMBDA r : Matches(term, r))
    IN [tree |-> [i \in 1..Len(shown) |-> RowOf(shown[i])],
        displayed_paths |-> [i \in 1..Len(shown) |-> shown[i].path]]

\* Line 433.
Toggled(reverse) == ~reverse

\* sort_column(col, toggle) on the launcher state (repos, flags), with the
\* search text `term`.
sort_column(repos, flags, term, col, toggle) ==
    LET reverse == flags[col]
        sorted == ListSort(repos, col, reverse)
        view == update_list(sorted, term)
    IN [all_repos |-> sorted,
        sort_reverse |-> IF toggle THEN [flags EXCEPT ![col] = Toggled(reverse)]
                                   ELSE flags,
        tree |-> view.tree,
        displayed_paths |-> view.displayed_paths,
        col |-> col,
        reverse |-> reverse]

RefreshColAlwaysName(flags) == "Name"

\* Line 422.
RefreshCol(flags) == IF flags["Last Commit"] THEN "Last Commit" ELSE "Name"

\* refresh_data with the scan result `scanned`.
refresh_data(scanned, flags, term) ==
    sort_column(scanned, flags, term, RefreshCol(flags), FALSE)

\* Line 287.
InitSortReverse == [c \in Columns |-> c = "Last Commit"]

NoEvent == [op |-> "start", col |-> "", sel |-> 0, fail |-> FALSE,
            editor |-> <<>>, path |-> <<>>]

\* The launcher's variables after a handler that ended in sort_column.
Sorted(r) ==
    /\ all_repos' = r.all_repos
    /\ sort_reverse' = r.sort_reverse
    /\ tree' = r.tree
    /\ displayed_paths' = r.displayed_paths
    /\ selection' = 0
    /\ orderedBy' = r.col
    /\ lastShown' = [lastShown EXCEPT ![r.col] = r.reverse]

\* Error points of a scan of path p: none, or while handling one of the
\* entries scandir yields.
ErrPoints(f, p) ==
    0..(IF isdir(f, expanduser(p)) THEN Len(scandir(f, expanduser(p))) ELSE 0)

AgeIdle == /\ ageTs = 0
           /\ ageNow = NowBase
           /\ ageLabel = get_time_ago(0, NowBase)

\* The state when DarkRepoLauncher.__init__ returns (it ends in refresh_data).
Init ==
    /\ fs \in FsSet
    /\ now = NowBase
    /\ envFile \in InitEnvs
    /\ EDITOR_COMMAND = getenv(envFile, "EDITOR_COMMAND", DefaultEditor)
    /\ BASE_PATH = getenv(envFile, "BASE_PATH", expanduser(<<Tilde, <<"Documents">>>>))
    /\ search_var = <<>>
    /\ \E errAt \in ErrPoints(fs, BASE_PATH) :
         LET r == refresh_data(get_git_repos(BASE_PATH, fs, errAt, now),
                               InitSortReverse, <<>>)
         IN /\ all_repos = r.all_repos
            /\ sort_reverse = r.sort_reverse
            /\ tree = r.tree
            /\ displayed_paths = r.displayed_paths
            /\ orderedBy = r.col
            /\ lastShown = InitSortReverse
            /\ ev = [NoEvent EXCEPT !.fail = ScanFailed(BASE_PATH, fs, errAt, now)]
    /\ selection = 0
    /\ spawned = <<>>
    /\ errorShown = FALSE
    /\ scans = 1
    /\ userKey = "none"
    /\ AgeIdle

\* The refresh button.
Refresh ==
    \E errAt \in ErrPoints(fs, BASE_PATH) :
        /\ Sorted(refresh_data(get_git_repos(BASE_PATH, fs, errAt, now),
                               sort_reverse, search_var))
        /\ ev' = [NoEvent EXCEPT !.op = "refresh",
                                 !.fail = ScanFailed(BASE_PATH, fs, errAt, now)]
        /\ scans' = 1
        /\ spawned' = <<>>
        /\ errorShown' = FALSE
        /\ UNCHANGED <<fs, now, EDITOR_COMMAND, BASE_PATH, envFile, search_var,
                       userKey, ageTs, ageNow, ageLabel>>

\* A click on a column header.
Click ==
    \E col \in Columns :
        /\ Sorted(sort_column(all_repos, sort_reverse, search_var, col, TRUE))
        /\ ev' = [NoEvent EXCEPT !.op = "click", !.col = col]
        /\ userKey' = col
        /\ scans' = 0
        /\ spawned' = <<>>
        /\ errorShown' = FALSE
        /\ UNCHANGED <<fs, now, EDITOR_COMMAND, BASE_PATH, envFile, search_var,
                       ageTs, ageNow, ageLabel>>

\* The write trace of search_var after the text `term` was typed.
Searched(term) ==
    LET view == update_list(all_repos, term)
    IN /\ search_var' = term
       /\ tree' = view.tree
       /\ displayed_paths' = view.displayed_paths
       /\ selection' = 0
       /\ ev' = [NoEvent EXCEPT !.op = "search"]
       /\ scans' = 0
       /\ spawned' = <<>>
       /\ errorShown' = FALSE
       /\ UNCHANGED <<fs, now, EDITOR_COMMAND, BASE_PATH, envFile, all_repos,
                      sort_reverse, orderedBy, lastShown, userKey, ageTs, ageNow, ageLabel>>

TypeChar ==
    \E c \in SearchChars :
        /\ Len(search_var) < MaxSearchLen
        /\ Searched(Append(search_var, c))

Backspace ==
    /\ search_var # <<>>
    /\ Searched(SubSeq(search_var, 1, Len(search_var) - 1))

\* The user selects a row.
SelectRow ==
    \E i \in 1..Len(tree) :
        /\ selection' = i
        /\ ev' = [NoEvent EXCEPT !.op = "select", !.sel = i]
        /\ scans' = 0
        /\ spawned' = <<>>
        /\ errorShown' = FALSE
        /\ UNCHANGED <<fs, now, EDITOR_COMMAND, BASE_PATH, envFile, all_repos,
                       sort_reverse, search_var, tree, displayed_paths,
                       orderedBy, lastShown, userKey, ageTs, ageNow, ageLabel>>

\* Line 461: the argv of the process started for row `index`.
LaunchArgv(index) == <<EDITOR_COMMAND, displayed_paths[index]>>

\* open_repo: double click, Return or the open button.
OpenRepo ==
    /\ spawned' = IF selection # 0 THEN LaunchArgv(selection) ELSE <<>>
    /\ ev' = [NoEvent EXCEPT !.op = "open", !.sel = selection]
    /\ scans' = 0
    /\ errorShown' = FALSE
    /\ UNCHANGED <<fs, now, EDITOR_COMMAND, BASE_PATH, envFile, all_repos,
                   sort_reverse, search_var, tree, displayed_paths, selection,
                   orderedBy, lastShown, userKey, ageTs, ageNow, ageLabel>>

PathAcceptedUnexpanded(f, new_path) == isdir(f, new_path)

\* Line 264: the path typed is accepted.
PathAccepted(f, new_path) == isdir(f, expanduser(new_path))

\* SettingsWindow.save with the two entries holding edText and pathText.
Save ==
    \E edText \in EditorInputs, pathText \in PathInputs :
        LET new_editor == Strip(edText)
            new_path == StripPath(pathText)
            event == [NoEvent EXCEPT !.op = "save", !.editor = edText,
                                     !.path = pathText]
        IN IF ~PathAccepted(fs, new_path)
           THEN /\ errorShown' = TRUE
                /\ ev' = event
                /\ scans' = 0
                /\ spawned' = <<>>
                /\ UNCHANGED <<fs, now, EDITOR_COMMAND, BASE_PATH, envFile,
                               all_repos, sort_reverse, search_var, tree,
                               displayed_paths, selection, orderedBy, lastShown,
                               userKey, ageTs, ageNow, ageLabel>>
           ELSE \E errAt \in ErrPoints(fs, new_path) :
                /\ envFile' = set_key(set_key(envFile, "EDITOR_COMMAND", new_editor),
                                      "BASE_PATH", new_path)
                /\ EDITOR_COMMAND' = new_editor
                /\ BASE_PATH' = new_path
                /\ Sorted(refresh_data(get_git_repos(new_path, fs, errAt, now),
                                       sort_reverse, search_var))
                /\ ev' = [event EXCEPT
                            !.fail = ScanFailed(new_path, fs, errAt, now)]
                /\ scans' = 1
                /\ spawned' = <<>>
                /\ errorShown' = FALSE
                /\ UNCHANGED <<fs, now, search_var, userKey, ageTs, ageNow, ageLabel>>

\* The filesystem changes under the program.
FsChange ==
    /\ fs' \in FsSet \ {fs}
    /\ ev' = [NoEvent EXCEPT !.op = "fs"]
    /\ scans' = 0
    /\ spawned' = <<>>
    /\ errorShown' = FALSE
    /\ UNCHANGED <<now, EDITOR_COMMAND, BASE_PATH, envFile, all_repos,
                   sort_reverse, search_var, tree, displayed_paths, selection,
                   orderedBy, lastShown, userKey, ageTs, ageNow, ageLabel>>

Next ==
    \/ Refresh
    \/ Click
    \/ TypeChar
    \/ Backspace
    \/ SelectRow
    \/ OpenRepo
    \/ Save
    \/ FsChange

Spec == Init /\ [][Next]_vars

-----------------------------------------------------------------------------
(* get_time_ago called on its own, as the clock advances *)

AgeSeconds == {-5, 0, 1, 59, 60, 61, 3599, 3600, 3601, 86399, 86400, 172800}

\* Timestamps: the sentinel 0, the first instant after it, and instants the
\* listed numbers of seconds (and a fraction) before startup.
AgeInputs ==
    {0, 1} \cup {Ago(d) - o : d \in AgeSeconds, o \in 0..(TicksPerSec - 1)}

FormatAge ==
    \E ts \in AgeInputs :
        /\ ageTs' = ts
        /\ ageNow' = now
        /\ ageLabel' = get_time_ago(ts, now)
        /\ UNCHANGED <<fs, now>>
        /\ UNCHANGED viewVars

ClockTick ==
    /\ now < NowBase + MaxClockSteps
    /\ now' = now + 1
    /\ UNCHANGED <<fs, ageTs, ageNow, ageLabel>>
    /\ UNCHANGED viewVars

NextAge ==
    \/ FormatAge
    \/ ClockTick

SpecAge == Init /\ [][NextAge]_vars

-----------------------------------------------------------------------------
(* Properties *)

ScanEvents == {"start", "refresh", "save"}

\* The key the user selected last, Last Commit before any selection.
ActiveKey == IF userKey = "none" THEN "Last Commit" ELSE userKey

\* The entry of the snapshot shown in row i, found through displayed_paths.
RowEntry(i) == CHOOSE r \in Range(all_repos) : r.path = displayed_paths[i]

\* The state two header clicks on col lead to.
TwoClicks(col) ==
    LET once == sort_column(all_repos, sort_reverse, search_var, col, TRUE)
    IN sort_column(once.all_repos, once.sort_reverse, search_var, col, TRUE)

\* C1: whenever the rows are ordered by a key K, two consecutive header
\* clicks on K leave sort_reverse[K] as it was and leave the displayed rows
\* in the order they had before the two clicks.
C1_TwoToggleRoundTrip ==
    /\ TwoClicks(orderedBy).sort_reverse[orderedBy] = sort_reverse[orderedBy]
    /\ TwoClicks(orderedBy).tree = tree

\* C2: a header click on the key the rows are ordered by reverses the
\* direction displayed for that key (stated for lists of two rows or more,
\* where a direction can be seen).
C2_ClickActiveKeyReverses ==
    [][(ev'.op = "click" /\ ev'.col = orderedBy /\ Len(tree) >= 2)
           => lastShown'[orderedBy] # lastShown[orderedBy]]_vars

\* C3: a header click on a key other than the one the rows are ordered by
\* sorts by the new key in the direction that key was displayed in last (its
\* default if it never was) and leaves the stored direction of the previous
\* key alone (stated for lists of two rows or more, where a direction can be
\* seen).
C3_OtherKeyKeepsDirection ==
    [][(ev'.op = "click" /\ ev'.col # orderedBy /\ Len(tree) >= 2)
           => /\ orderedBy' = ev'.col
              /\ lastShown'[ev'.col] = lastShown[ev'.col]
              /\ sort_reverse'[orderedBy] = sort_reverse[orderedBy]]_vars

\* C4: the displayed rows are a function of the snapshot's entries, the
\* search term, the active key and its direction alone: a step that changes
\* none of the four (nor any stored direction) does not change the rows.
C4_OrderIsPureFunction ==
    [][(/\ Range(all_repos') = Range(all_repos)
        /\ search_var' = search_var
        /\ ActiveKey' = ActiveKey
        /\ lastShown'[ActiveKey] = lastShown[ActiveKey]
        /\ sort_reverse' = sort_reverse)
           => tree' = tree]_vars

\* C5: until a header is clicked the rows are ordered by last activity,
\* most recent first, and the stored directions are Name ascending, Last
\* Commit descending.
C5_DefaultProjection ==
    userKey = "none" =>
        /\ sort_reverse["Name"] = FALSE
        /\ sort_reverse["Last Commit"] = TRUE
        /\ \A i, j \in 1..Len(displayed_paths) :
               i < j => RowEntry(i).mtime >= RowEntry(j).mtime

\* C5 witness: no header clicked, a settings save has rescanned, and the two
\* rows shown are in the reverse of the order the scan listed them in.
C5_Witness ==
    /\ userKey = "none"
    /\ ev.op = "save"
    /\ Len(tree) = 2
    /\ RowEntry(1).mtime > RowEntry(2).mtime
    /\ RowEntry(1).name = scandir(fs, expanduser(BASE_PATH))[Len(scandir(fs, expanduser(BASE_PATH)))].name

\* The entries of the snapshot whose lower-cased name contains the
\* lower-cased search term, in snapshot order.
MatchingEntries ==
    SelectSeq(all_repos, LAMBDA r : StrIn(Lower(search_var), Lower(r.name)))

\* C6: the rows are exactly the matching entries of all_repos, in order;
\* displayed_paths runs parallel to the rows; open_repo on selected row i
\* spawns [EDITOR_COMMAND, path of the entry in row i] and nothing without a
\* selection.
C6_ViewLaunchConsistency ==
    /\ Len(tree) = Len(MatchingEntries)
    /\ Len(displayed_paths) = Len(tree)
    /\ \A i \in 1..Len(tree) :
          /\ tree[i].name = <<" ", " ">> \o MatchingEntries[i].name
          /\ tree[i].time_ago = MatchingEntries[i].time_ago
          /\ displayed_paths[i] = MatchingEntries[i].path
    /\ selection \in 0..Len(tree)
    /\ ev.op = "open" =>
          IF ev.sel = 0 THEN spawned = <<>>
          ELSE spawned = <<EDITOR_COMMAND, MatchingEntries[ev.sel].path>>
    /\ ev.op # "open" => spawned = <<>>

\* C6 witness: a search term in another case than the name it matches hides
\* the entry listed first, and the one row left was opened.
C6_Witness ==
    /\ ev.op = "open"
    /\ ev.sel = 1
    /\ search_var = <<"A">>
    /\ Len(all_repos) = 2
    /\ Len(tree) = 1
    /\ all_repos[1].name = NameB
    /\ spawned = <<EDITOR_COMMAND, all_repos[2].path>>

\* C7: a save whose search path is no existing directory shows an error and
\* changes nothing (no key of .env, neither global, no rescan, snapshot,
\* directions and rows as before); a save with an existing directory writes
\* both keys, sets both globals and refreshes.
C7_InvalidSaveRejected ==
    [][ev'.op = "save" =>
          IF ~isdir(fs, expanduser(StripPath(ev'.path)))
          THEN /\ errorShown'
               /\ scans' = 0
               /\ UNCHANGED <<envFile, EDITOR_COMMAND, BASE_PATH, all_repos,
                              sort_reverse, tree, displayed_paths>>
          ELSE /\ ~errorShown'
               /\ scans' = 1
               /\ DOMAIN envFile' = {"EDITOR_COMMAND", "BASE_PATH"}
               /\ envFile'["EDITOR_COMMAND"] = Strip(ev'.editor)
               /\ envFile'["BASE_PATH"] = StripPath(ev'.path)
               /\ EDITOR_COMMAND' = Strip(ev'.editor)
               /\ BASE_PATH' = StripPath(ev'.path)]_vars

\* C7 witness: a rejected save in which the editor field had been edited,
\* with rows on display.
C7_Witness ==
    /\ ev.op = "save"
    /\ errorShown
    /\ ~isdir(fs, expanduser(StripPath(ev.path)))
    /\ Strip(ev.editor) # EDITOR_COMMAND
    /\ tree # <<>>

\* C8: get_git_repos returns the empty list for a missing path and after an
\* error at any point of the enumeration; a refresh that runs such a scan
\* leaves an empty snapshot and no rows.
C8_ScanNeverFails ==
    /\ \A p \in PathInputs \cup {BASE_PATH} :
          \A errAt \in ErrPoints(fs, p) :
              ScanFailed(p, fs, errAt, now) => get_git_repos(p, fs, errAt, now) = <<>>
    /\ (ev.op \in ScanEvents /\ ev.fail) =>
          /\ all_repos = <<>>
          /\ tree = <<>>
          /\ displayed_paths = <<>>

\* C8 witness: a refresh whose scan failed in a directory that holds
\* repositories, with the empty list on display.
C8_Witness ==
    /\ ev.op = "refresh"
    /\ ev.fail
    /\ get_git_repos(BASE_PATH, fs, 0, now) # <<>>
    /\ all_repos = <<>>
    /\ tree = <<>>

\* The immediate children of root that are directories directly holding a
\* subdirectory named .git.
GitChildren(f, root) ==
    {n.path : n \in {m \in f.nodes : /\ Len(m.path) = Len(root) + 1
                                     /\ SubSeq(m.path, 1, Len(root)) = root
                                     /\ m.kind = "dir"
                                     /\ isdir(f, join(m.path, GitName))}}

\* C9: after a scan of an existing root that met no error, the snapshot
\* holds one entry for exactly those immediate children that are directories
\* with a subdirectory named .git.
C9_QualifiesIffGitSubdirectory ==
    (ev.op \in ScanEvents /\ scans = 1 /\ ~ev.fail) =>
        /\ {r.path : r \in Range(all_repos)} = GitChildren(fs, expanduser(BASE_PATH))
        /\ Len(all_repos) = Cardinality(GitChildren(fs, expanduser(BASE_PATH)))

\* The label the bucketing rule gives s elapsed whole seconds, s >= 0.
BucketLabel(s) ==
    IF s < SecPerMin THEN [n |-> s, unit |-> "s ago"]
    ELSE IF s < SecPerHour THEN [n |-> s \div SecPerMin, unit |-> "m ago"]
    ELSE IF s < SecPerDay THEN [n |-> s \div SecPerHour, unit |-> "h ago"]
    ELSE [n |-> s \div SecPerDay, unit |-> "d ago"]

\* C10: get_time_ago(0) is Never; otherwise the label is the bucket of the
\* elapsed whole seconds (strict upper bounds, floor of the quotient); a
\* future timestamp gets a label of the seconds bucket.
C10_AgeBucketing ==
    LET elapsed == ageNow - ageTs
    IN IF ageTs = 0 THEN ageLabel.unit = "Never"
       ELSE IF elapsed < 0 THEN ageLabel.unit = "s ago"
       ELSE ageLabel = BucketLabel(elapsed \div TicksPerSec)

\* C10 witness: a timestamp exactly one minute before the call.
C10_Witness ==
    /\ ageTs # 0
    /\ ageNow - ageTs = SecPerMin * TicksPerSec
    /\ ageLabel = [n |-> 1, unit |-> "m ago"]

====
